---------------------------- MODULE Spec2Model ----------------------------
(***************************************************************************)
(* A model of the bs1770 loudness library (src/src/lib.rs): the biquad     *)
(* Filter, the compensated Sum, ChannelLoudnessMeter::push, reduce_stereo  *)
(* and gated_mean.                                                         *)
(*                                                                         *)
(* Numbers.  The library computes in f32.  The model computes in a binary  *)
(* floating-point format with the same structure as IEEE-754 binary32      *)
(* (round to nearest, ties to even; gradual underflow; overflow to         *)
(* infinity; NaN from 0/0 and inf-inf) but with a significand of           *)
(* Precision bits instead of 24, so that every intermediate value fits     *)
(* TLC's integers.  The exponent range is that of binary32.  A value is a  *)
(* record [k, m, e]: k = "num" stands for m * 2^e, k = "inf" for the       *)
(* infinity of sign m, k = "nan" for NaN.  The sign of zero is not         *)
(* modelled (the library never divides a non-zero value by a zero whose    *)
(* sign could matter).                                                     *)
(***************************************************************************)
EXTENDS Integers, Sequences, FiniteSets

\* Width of the significand in bits (binary32 has 24).
Precision == 11

Two(k) == 2 ^ k

\* Exponent of the last significand bit of the smallest and of the largest
\* finite values: binary32's -126 .. 127, shifted by the significand width.
EMin == (-126) - (Precision - 1)
EMax == 127 - (Precision - 1)

NaN == [k |-> "nan", m |-> 0, e |-> 0]
Inf(s) == [k |-> "inf", m |-> s, e |-> 0]
Zero == [k |-> "num", m |-> 0, e |-> EMin]

Abs(n) == IF n < 0 THEN -n ELSE n
Sgn(n) == IF n < 0 THEN -1 ELSE 1

Max(a, b) == IF a >= b THEN a ELSE b

\* The element of a singleton: The({F(v) : v \in {x}}) is F(x), with x
\* evaluated once.
The(S) == CHOOSE v \in S : TRUE

\* The number of bits of n (0 <= n < 2^31).
BitLen4(n) == IF n >= 8 THEN 4 ELSE IF n >= 4 THEN 3 ELSE IF n >= 2 THEN 2 ELSE IF n >= 1 THEN 1 ELSE 0
BitLen8(n) == IF n >= 16 THEN 4 + BitLen4(n \div 16) ELSE BitLen4(n)
BitLen16(n) == IF n >= 256 THEN 8 + BitLen8(n \div 256) ELSE BitLen8(n)
BitLen(n) == IF n >= 65536 THEN 16 + BitLen16(n \div 65536) ELSE BitLen16(n)

\* n * 2^e with n shifted left until it fills the significand (exact).
NormUp(n, e) ==
    LET sh == Max(Precision - BitLen(n), 0) IN <<n * Two(sh), e - sh>>

\* n * 2^e (n > 0) with the last sh bits of n dropped, rounded to nearest,
\* ties to even; s: non-zero bits were already lost below n.
RoundUp(q, rem, half, s) == rem > half \/ (rem = half /\ (s \/ q % 2 = 1))

RoundShift(n, e, sh, s) ==
    The({IF q2 = Two(Precision) THEN <<Two(Precision - 1), e + sh + 1>> ELSE <<q2, e + sh>> :
         q2 \in {IF RoundUp(q, n % Two(sh), Two(sh - 1), s) THEN q + 1 ELSE q :
                 q \in {n \div Two(sh)}}})

\* The value of sign sg nearest to n * 2^e (n >= 0; s: bits were lost below n):
\* the significand is cut to Precision bits, and further for a subnormal.
Rounded(n, e, s, bl, sh) ==
    IF sh <= 0 THEN <<n * Two(-sh), e + sh>>
    ELSE IF sh > bl + 1 THEN <<0, EMin>>
    ELSE RoundShift(n, e, sh, s)

Pack(sg, n, e, s) ==
    IF n = 0
    THEN Zero
    ELSE The({IF r[1] = 0 THEN Zero
              ELSE IF r[2] > EMax THEN Inf(sg)
              ELSE [k |-> "num", m |-> sg * r[1], e |-> r[2]] :
              r \in {Rounded(n, e, s, bl, Max(bl - Precision, EMin - e)) :
                      bl \in {BitLen(n)}}})

\* A u32 or usize converted with `as f32`.
FromInt(n) == Pack(Sgn(n), Abs(n), 0, FALSE)

\* The literal num/den (den > 0), rounded once.
FromRat(num, den) ==
    LET sh == Max(BitLen(den) + Precision + 2 - BitLen(Abs(num)), 0)
        n  == Abs(num) * Two(sh)
    IN  Pack(Sgn(num), n \div den, -sh, n % den # 0)

FNeg(a) == [a EXCEPT !.m = -@]

\* hi + lo for finite hi and lo with hi.e >= lo.e.
AddAligned(hi, lo) ==
    IF hi.e - lo.e > Precision + 2
    THEN hi
    ELSE The({Pack(Sgn(n), Abs(n), lo.e, FALSE) :
              n \in {hi.m * Two(hi.e - lo.e) + lo.m}})

FAdd(x, y) ==
    The({IF a.k = "nan" \/ b.k = "nan" THEN NaN
         ELSE IF a.k = "inf" THEN (IF b.k = "inf" /\ b.m # a.m THEN NaN ELSE a)
         ELSE IF b.k = "inf" THEN b
         ELSE IF a.e >= b.e THEN AddAligned(a, b) ELSE AddAligned(b, a) :
         a \in {x}, b \in {y}})

FSub(a, b) == FAdd(a, FNeg(b))

FMul(x, y) ==
    The({IF a.k = "nan" \/ b.k = "nan" THEN NaN
         ELSE IF a.k = "inf" \/ b.k = "inf"
         THEN (IF a.m = 0 \/ b.m = 0 THEN NaN ELSE Inf(Sgn(a.m) * Sgn(b.m)))
         ELSE Pack(Sgn(a.m) * Sgn(b.m), Abs(a.m) * Abs(b.m), a.e + b.e, FALSE) :
         a \in {x}, b \in {y}})

\* a / b for finite non-zero a and b: the significand of a is widened so
\* that the quotient has two bits more than the significand.
Quotient(a, b) ==
    The({Pack(Sgn(a.m) * Sgn(b.m), (u[1] * Two(Precision + 2)) \div Abs(b.m),
              u[2] - (Precision + 2) - b.e,
              (u[1] * Two(Precision + 2)) % Abs(b.m) # 0) :
         u \in {NormUp(Abs(a.m), a.e)}})

FDiv(x, y) ==
    The({IF a.k = "nan" \/ b.k = "nan" THEN NaN
         ELSE IF a.k = "inf" THEN (IF b.k = "inf" THEN NaN ELSE Inf(a.m * Sgn(b.m)))
         ELSE IF b.k = "inf" THEN Zero
         ELSE IF b.m = 0 THEN (IF a.m = 0 THEN NaN ELSE Inf(Sgn(a.m)))
         ELSE IF a.m = 0 THEN Zero
         ELSE Quotient(a, b) :
         a \in {x}, b \in {y}})

\* a > b as PartialOrd on f32 decides it: false when either is NaN.
FGt(x, y) ==
    The({IF a.k = "nan" \/ b.k = "nan" THEN FALSE
         ELSE IF a.k = "inf" \/ b.k = "inf"
         THEN (IF a.k = "inf" /\ b.k = "inf" THEN a.m > b.m
               ELSE IF a.k = "inf" THEN a.m > 0
               ELSE b.m < 0)
         ELSE IF a.m > 0 /\ b.m > 0 THEN a.e > b.e \/ (a.e = b.e /\ a.m > b.m)
         ELSE IF a.m < 0 /\ b.m < 0 THEN a.e < b.e \/ (a.e = b.e /\ a.m > b.m)
         ELSE a.m > b.m :
         a \in {x}, b \in {y}})

(***************************************************************************)
(* f32::log10 and f32::powf, computed in fixed point: FixOne stands for    *)
(* 1.0 in the significand domain and LogOne for 1.0 in the exponent        *)
(* domain.  Both are finer than the significand, so the results are        *)
(* accurate to about one unit in the last place, as the library's are.     *)
(***************************************************************************)
FixOne == 2 ^ 14
LogOne == 2 ^ 12
LogBits == 1 .. 12

\* log2(y / FixOne) * LogOne for FixOne <= y < 2 * FixOne, one bit of the
\* result per squaring; acc holds the bits found so far.
RECURSIVE Log2Frac(_, _, _)
Log2Frac(y, i, acc) ==
    IF i = 0 THEN acc
    ELSE LET y2 == (y * y) \div FixOne
         IN  IF y2 >= 2 * FixOne
             THEN Log2Frac(y2 \div 2, i - 1, 2 * acc + 1)
             ELSE Log2Frac(y2, i - 1, 2 * acc)

\* x.log10()
Log10(x) ==
    IF x.k = "nan" THEN NaN
    ELSE IF x.k = "inf" THEN (IF x.m > 0 THEN x ELSE NaN)
    ELSE IF x.m < 0 THEN NaN
    ELSE IF x.m = 0 THEN Inf(-1)
    ELSE LET u  == NormUp(x.m, x.e)
             l2 == (u[2] + Precision - 1) * LogOne
                   + Log2Frac(u[1] * (FixOne \div Two(Precision - 1)),
                              Cardinality(LogBits), 0)
             \* log10(2) = 1233 / 4096
             n  == l2 * 1233
         IN  Pack(Sgn(n), Abs(n), -24, FALSE)

\* 2^(2^-i) * FixOne, for i = 1 .. 12.
Exp2Step == <<23170, 19484, 17867, 17109, 16743, 16562,
              16473, 16428, 16406, 16395, 16390, 16387>>

\* 2^(f / LogOne) * FixOne for 0 <= f < LogOne: the product of the steps of
\* the bits set in f, from bit i on.
RECURSIVE Exp2Frac(_, _, _)
Exp2Frac(f, i, acc) ==
    IF i > Cardinality(LogBits) THEN acc
    ELSE IF (f \div Two(Cardinality(LogBits) - i)) % 2 = 1
    THEN Exp2Frac(f, i + 1, (acc * Exp2Step[i]) \div FixOne)
    ELSE Exp2Frac(f, i + 1, acc)

\* 10.0_f32.powf(x)
Powf10(x) ==
    IF x.k = "nan" THEN NaN
    ELSE IF x.k = "inf" THEN (IF x.m > 0 THEN x ELSE Zero)
    ELSE IF x.e > 6 - Precision
    THEN \* |x| >= 64: beyond the exponent range either way
         (IF x.m > 0 THEN Inf(1) ELSE Zero)
    ELSE LET sh == x.e + 12
             xf == IF sh >= 0 THEN x.m * Two(sh) ELSE x.m \div Two(-sh)
             \* log2(10) = 3 + 1319 / 4096
             t  == 3 * xf + (xf * 1319) \div 4096
             n  == t \div LogOne
             f  == t % LogOne
         IN  IF sh < -31 THEN FromInt(1)
             ELSE Pack(1, Exp2Frac(f, 1, FixOne), n - 14, FALSE)

\* An f32 the library computed, given exactly as m * 2^e, in the model's format.
F32(m, e) == Pack(Sgn(m), Abs(m), e, FALSE)

One == FromInt(1)

(***************************************************************************)
(* Filter: the coefficients a1, a2, b0, b1, b2 and the past two inputs and *)
(* outputs.  high_shelf and high_pass compute the coefficients from the    *)
(* sample rate with tan and powf; the model holds the f32 values those     *)
(* formulas give for the sample rates it uses.                             *)
(***************************************************************************)
Rates == {5, 10, 25, 30}

HighShelfCoef(sample_rate_hz) ==
    CASE sample_rate_hz = 5 ->
           [a1 |-> F32(288761, -18),     a2 |-> F32(13251091, -25),
            b0 |-> F32(9405063, -23),    b1 |-> F32(2130167, -21),
            b2 |-> F32(1508001, -22)]
      [] sample_rate_hz = 10 ->
           [a1 |-> F32(-13040449, -25),  a2 |-> F32(13317381, -26),
            b0 |-> F32(11205053, -23),   b1 |-> F32(-14306759, -24),
            b2 |-> F32(10965979, -25)]
      [] sample_rate_hz = 25 ->
           [a1 |-> F32(14335095, -26),   a2 |-> F32(3014811, -24),
            b0 |-> F32(5231859, -22),    b1 |-> F32(-289011, -22),
            b2 |-> F32(14417635, -26)]
      [] sample_rate_hz = 30 ->
           [a1 |-> F32(-11963817, -23),  a2 |-> F32(9353033, -24),
            b0 |-> F32(6264221, -22),    b1 |-> F32(-1205193, -19),
            b2 |-> F32(7855955, -23)]

HighPassCoef(sample_rate_hz) ==
    CASE sample_rate_hz = 5 ->
           [a1 |-> F32(10300429, -21),   a2 |-> F32(6332695, -20)]
      [] sample_rate_hz = 10 ->
           [a1 |-> F32(-10286011, -20),  a2 |-> F32(1588147, -16)]
      [] sample_rate_hz = 25 ->
           [a1 |-> F32(9846797, -22),    a2 |-> F32(11558855, -23)]
      [] sample_rate_hz = 30 ->
           [a1 |-> F32(8947857, -26),    a2 |-> F32(2560053, -29)]

\* Filter::high_shelf
high_shelf(sample_rate_hz) ==
    LET c == HighShelfCoef(sample_rate_hz)
    IN  [a1 |-> c.a1, a2 |-> c.a2, b0 |-> c.b0, b1 |-> c.b1, b2 |-> c.b2,
         x1 |-> Zero, x2 |-> Zero, y1 |-> Zero, y2 |-> Zero]

\* Filter::high_pass
high_pass(sample_rate_hz) ==
    LET c == HighPassCoef(sample_rate_hz)
    IN  [a1 |-> c.a1, a2 |-> c.a2,
         b0 |-> FromInt(1), b1 |-> FromInt(-2), b2 |-> FromInt(1),
         x1 |-> Zero, x2 |-> Zero, y1 |-> Zero, y2 |-> Zero]

\* Mutant: the memories are shifted before the output is computed.
apply_after_shift(self, x0) ==
    The({[self |-> [self EXCEPT !.x2 = self.x1, !.x1 = x0,
                                !.y2 = self.y1, !.y1 = y0],
          y0   |-> y0] :
         y0 \in {FSub(FSub(FAdd(FAdd(FAdd(Zero,
                    FMul(self.b0, x0)),
                    FMul(self.b1, x0)),
                    FMul(self.b2, self.x1)),
                    FMul(self.a1, self.y1)),
                    FMul(self.a2, self.y1))}})

\* Filter::apply: the filter after the call, and the output sample y0.
apply(self, x0) ==
    The({[self |-> [self EXCEPT !.x2 = self.x1, !.x1 = x0,
                                !.y2 = self.y1, !.y1 = y0],
          y0   |-> y0] :
         y0 \in {FSub(FSub(FAdd(FAdd(FAdd(Zero,
                    FMul(self.b0, x0)),
                    FMul(self.b1, self.x1)),
                    FMul(self.b2, self.x2)),
                    FMul(self.a1, self.y1)),
                    FMul(self.a2, self.y2))}})

(***************************************************************************)
(* Sum: the compensated sum.                                               *)
(***************************************************************************)
\* Sum::zero
SumZero == [sum |-> Zero, residue |-> Zero]

\* Sum::add
SumAdd(self, x) ==
    The({[sum     |-> sum,
          residue |-> FSub(FAdd(self.residue, x), FSub(sum, self.sum))] :
         sum \in {FAdd(self.sum, FAdd(self.residue, x))}})

(***************************************************************************)
(* Power: an f32 in a newtype.                                             *)
(***************************************************************************)
\* Power::from_lkfs
from_lkfs(lufs) ==
    Powf10(FMul(FAdd(lufs, FromRat(691, 1000)), FromRat(1, 10)))

\* Power::loudness_lkfs
loudness_lkfs(self) ==
    FAdd(FromRat(-691, 1000), FMul(FromInt(10), Log10(self)))

(***************************************************************************)
(* ChannelLoudnessMeter                                                    *)
(***************************************************************************)
\* ChannelLoudnessMeter::new
new(sample_rate_hz) ==
    [samples_per_100ms  |-> sample_rate_hz \div 10,
     filter_stage1      |-> high_shelf(sample_rate_hz),
     filter_stage2      |-> high_pass(sample_rate_hz),
     square_sum_windows |-> <<>>,
     count              |-> 0,
     square_sum         |-> SumZero]

\* Mutant: completion starts the next window from a zeroed compensated sum.
CompleteWindowResetResidue(self, normalizer) ==
    [self EXCEPT
        !.square_sum_windows = Append(@, FMul(self.square_sum.sum, normalizer)),
        !.square_sum = SumZero,
        !.count = 0]

\* Mutant: completion puts the new window in front of the emitted ones.
CompleteWindowInFront(self, normalizer) ==
    [self EXCEPT
        !.square_sum_windows = <<FMul(self.square_sum.sum, normalizer)>> \o @,
        !.square_sum.sum = Zero,
        !.count = 0]

\* Mutant: the completed window is emitted and the count is not reset.
CompleteWindowKeepCount(self, normalizer) ==
    [self EXCEPT
        !.square_sum_windows = Append(@, FMul(self.square_sum.sum, normalizer)),
        !.square_sum.sum = Zero]

\* The branch of push taken when count reaches samples_per_100ms.
CompleteWindow(self, normalizer) ==
    [self EXCEPT
        !.square_sum_windows = Append(@, FMul(self.square_sum.sum, normalizer)),
        !.square_sum.sum = Zero,
        !.count = 0]

\* The body of the loop of push, for the sample x.
\* Mutant: the window sums the magnitudes of the filtered samples.
CountedMagnitude(self, y, z) ==
    [self EXCEPT !.filter_stage1 = y.self,
                 !.filter_stage2 = z.self,
                 !.square_sum = SumAdd(@, [z.y0 EXCEPT !.m = Abs(@)]),
                 !.count = @ + 1]

\* The loop body of push up to the count: both filters applied, the square
\* added to the sum.
Counted(self, y, z) ==
    [self EXCEPT !.filter_stage1 = y.self,
                 !.filter_stage2 = z.self,
                 !.square_sum = SumAdd(@, FMul(z.y0, z.y0)),
                 !.count = @ + 1]

PushSample(self, normalizer, x) ==
    The({IF s1.count = s1.samples_per_100ms
         THEN CompleteWindow(s1, normalizer)
         ELSE s1 :
         s1 \in {Counted(self, y, apply(self.filter_stage2, y.y0)) :
                 y \in {apply(self.filter_stage1, x)}}})

RECURSIVE PushLoop(_, _, _, _)
PushLoop(self, normalizer, samples, i) ==
    IF i > Len(samples)
    THEN self
    ELSE PushLoop(PushSample(self, normalizer, samples[i]), normalizer, samples, i + 1)

\* Mutant: every call of push starts from zeroed filter memories.
push_from_rest(self, samples) ==
    PushLoop([self EXCEPT
                 !.filter_stage1.x1 = Zero, !.filter_stage1.x2 = Zero,
                 !.filter_stage1.y1 = Zero, !.filter_stage1.y2 = Zero,
                 !.filter_stage2.x1 = Zero, !.filter_stage2.x2 = Zero,
                 !.filter_stage2.y1 = Zero, !.filter_stage2.y2 = Zero],
             FDiv(One, FromInt(self.samples_per_100ms)), samples, 1)

\* Mutant: the open window is local to one call of push.
push_local_window(self, samples) ==
    PushLoop([self EXCEPT !.count = 0, !.square_sum = SumZero],
             FDiv(One, FromInt(self.samples_per_100ms)), samples, 1)

\* Mutant: push emits the open window when its input ends.
push_flush(self, samples) ==
    LET normalizer == FDiv(One, FromInt(self.samples_per_100ms))
        r == PushLoop(self, normalizer, samples, 1)
    IN  IF r.count > 0 THEN CompleteWindow(r, normalizer) ELSE r

\* ChannelLoudnessMeter::push
push(self, samples) ==
    PushLoop(self, FDiv(One, FromInt(self.samples_per_100ms)), samples, 1)

(***************************************************************************)
(* reduce_stereo.  A call either returns a value or panics.                *)
(***************************************************************************)
Returned(v) == [called |-> TRUE, panicked |-> FALSE, value |-> v]
Panicked == [called |-> TRUE, panicked |-> TRUE, value |-> <<>>]

\* Mutant: the normalized sum 0.5 * (L + R).
ZipMean(left, right) ==
    LET n == IF Len(left) <= Len(right) THEN Len(left) ELSE Len(right)
    IN  [k \in 1 .. n |-> FMul(FromRat(1, 2), FAdd(left[k], right[k]))]

\* The loop of reduce_stereo over left.iter().zip(right).
ZipSum(left, right) ==
    LET n == IF Len(left) <= Len(right) THEN Len(left) ELSE Len(right)
    IN  [k \in 1 .. n |-> FAdd(left[k], right[k])]

\* Mutant: without the assertion, zip stops at the shorter input.
reduce_stereo_unchecked(left, right) == Returned(ZipSum(left, right))

\* reduce_stereo
reduce_stereo(left, right) ==
    IF Len(left) # Len(right)
    THEN Panicked
    ELSE Returned(ZipSum(left, right))

(***************************************************************************)
(* gated_mean                                                              *)
(***************************************************************************)
\* from_lkfs(-70.0), the absolute threshold.
absolute_threshold == from_lkfs(FromInt(-70))

\* Mutant: the block power is the sum of its four windows, not their mean.
gating_block_sum(windows_100ms, k) ==
    FAdd(FAdd(FAdd(FAdd(Zero, windows_100ms[k]), windows_100ms[k + 1]),
              windows_100ms[k + 2]), windows_100ms[k + 3])

\* The power of the 400 ms block that starts at window k (1-based):
\* 0.25 * the sum of its four windows, added in order from 0.0.
gating_block_power(windows_100ms, k) ==
    FMul(FromRat(1, 4),
         FAdd(FAdd(FAdd(FAdd(Zero, windows_100ms[k]), windows_100ms[k + 1]),
                   windows_100ms[k + 2]), windows_100ms[k + 3]))

\* Mutant: the absolute gate keeps a block at the threshold.
RECURSIVE AbsoluteGateInclusive(_, _, _)
AbsoluteGateInclusive(windows_100ms, k, gating_blocks) ==
    IF k + 3 > Len(windows_100ms)
    THEN gating_blocks
    ELSE LET p == gating_block_power(windows_100ms, k)
         IN  AbsoluteGateInclusive(windows_100ms, k + 1,
                                   IF ~FGt(absolute_threshold, p)
                                   THEN Append(gating_blocks, p)
                                   ELSE gating_blocks)

\* Mutant: the blocks do not overlap (chunks of four windows).
RECURSIVE AbsoluteGateDisjoint(_, _, _)
AbsoluteGateDisjoint(windows_100ms, k, gating_blocks) ==
    IF k + 3 > Len(windows_100ms)
    THEN gating_blocks
    ELSE LET p == gating_block_power(windows_100ms, k)
         IN  AbsoluteGateDisjoint(windows_100ms, k + 4,
                                  IF FGt(p, absolute_threshold)
                                  THEN Append(gating_blocks, p)
                                  ELSE gating_blocks)

\* The first loop of gated_mean from block k on: the blocks above the
\* absolute threshold, in order.
RECURSIVE AbsoluteGate(_, _, _)
AbsoluteGate(windows_100ms, k, gating_blocks) ==
    IF k + 3 > Len(windows_100ms)
    THEN gating_blocks
    ELSE LET p == gating_block_power(windows_100ms, k)
         IN  AbsoluteGate(windows_100ms, k + 1,
                          IF FGt(p, absolute_threshold)
                          THEN Append(gating_blocks, p)
                          ELSE gating_blocks)

\* The second loop of gated_mean: the compensated sum of all the blocks.
RECURSIVE SumAll(_, _, _)
SumAll(gating_blocks, i, sum_power) ==
    IF i > Len(gating_blocks)
    THEN sum_power
    ELSE SumAll(gating_blocks, i + 1, SumAdd(sum_power, gating_blocks[i]))

\* Mutant: the relative threshold lies 10 LU above the absolute-gated
\* loudness instead of below it.
relative_threshold_above(absolute_gated_power) ==
    from_lkfs(FAdd(loudness_lkfs(absolute_gated_power), FromInt(10)))

\* The threshold of the relative gate, from the absolute-gated power.
relative_threshold(absolute_gated_power) ==
    from_lkfs(FSub(loudness_lkfs(absolute_gated_power), FromInt(10)))

\* Mutant: the relative gate keeps the blocks that are not above the
\* threshold.
RECURSIVE RelativeGateInverted(_, _, _, _)
RelativeGateInverted(gating_blocks, threshold, i, acc) ==
    IF i > Len(gating_blocks)
    THEN acc
    ELSE RelativeGateInverted(gating_blocks, threshold, i + 1,
                              IF ~FGt(gating_blocks[i], threshold)
                              THEN [sum_power |-> SumAdd(acc.sum_power, gating_blocks[i]),
                                    n_blocks  |-> acc.n_blocks + 1]
                              ELSE acc)

\* Mutant: every block that passed the absolute gate is counted.
RECURSIVE RelativeGateCountAll(_, _, _, _)
RelativeGateCountAll(gating_blocks, threshold, i, acc) ==
    IF i > Len(gating_blocks)
    THEN acc
    ELSE RelativeGateCountAll(gating_blocks, threshold, i + 1,
            [sum_power |-> IF FGt(gating_blocks[i], threshold)
                           THEN SumAdd(acc.sum_power, gating_blocks[i])
                           ELSE acc.sum_power,
             n_blocks  |-> acc.n_blocks + 1])

\* The third loop of gated_mean: the compensated sum and the number of the
\* blocks above the relative threshold.
RECURSIVE RelativeGate(_, _, _, _)
RelativeGate(gating_blocks, threshold, i, acc) ==
    IF i > Len(gating_blocks)
    THEN acc
    ELSE RelativeGate(gating_blocks, threshold, i + 1,
                      IF FGt(gating_blocks[i], threshold)
                      THEN [sum_power |-> SumAdd(acc.sum_power, gating_blocks[i]),
                            n_blocks  |-> acc.n_blocks + 1]
                      ELSE acc)

\* sum_power.sum / (gating_blocks.len() as f32)
absolute_gated_power(gating_blocks) ==
    FDiv(SumAll(gating_blocks, 1, SumZero).sum, FromInt(Len(gating_blocks)))

\* sum_power.sum / n_blocks as f32
relative_gated_power(acc) == FDiv(acc.sum_power.sum, FromInt(acc.n_blocks))

\* Mutant: the final mean divides by the number of all the blocks formed.
gated_mean_per_block(windows_100ms) ==
    LET gating_blocks == AbsoluteGate(windows_100ms, 1, <<>>)
        threshold     == relative_threshold(absolute_gated_power(gating_blocks))
        acc           == RelativeGate(gating_blocks, threshold, 1,
                                      [sum_power |-> SumZero, n_blocks |-> 0])
    IN  FDiv(acc.sum_power.sum, FromInt(Len(windows_100ms) - 3))

\* gated_mean
gated_mean(windows_100ms) ==
    LET gating_blocks == AbsoluteGate(windows_100ms, 1, <<>>)
        threshold     == relative_threshold(absolute_gated_power(gating_blocks))
    IN  relative_gated_power(
            RelativeGate(gating_blocks, threshold, 1,
                         [sum_power |-> SumZero, n_blocks |-> 0]))

(***************************************************************************)
(* State.                                                                  *)
(***************************************************************************)
VARIABLES
    sample_rate_hz,   \* the rate the meters were constructed with
    meters,           \* channel -> ChannelLoudnessMeter
    fed,              \* history: channel -> all the samples pushed so far
    chunks,           \* history: the lengths of the push calls made so far
    left, right,      \* the arguments of reduce_stereo
    stereo,           \* the outcome of reduce_stereo, once called
    programme,        \* the windows a measurement started from
    gain,             \* the factor between the programme and the measured copy
    windows_100ms,    \* the argument of gated_mean
    power             \* the result of gated_mean, once called

vars == <<sample_rate_hz, meters, fed, chunks, left, right, stereo,
          programme, gain, windows_100ms, power>>

meterVars == <<sample_rate_hz, meters, fed, chunks>>
stereoVars == <<left, right, stereo>>
gateVars == <<programme, gain, windows_100ms, power>>

NotCalled == [called |-> FALSE, panicked |-> FALSE, value |-> <<>>]
NotMeasured == [called |-> FALSE, value |-> NaN]
Measured(p) == [called |-> TRUE, value |-> p]

\* Bounds of the model.
MaxSamples == 3
MaxChunk == 3
MaxCalls == 3

SeqsUpTo(S, n) == UNION {[1 .. k -> S] : k \in 0 .. n}

\* Input samples: silence, full scale, and a negative half scale.
Samples == {Zero, One, FNeg(FromRat(1, 2))}

NoStereo == left = <<>> /\ right = <<>> /\ stereo = NotCalled
NoGate ==
    /\ programme = <<>>
    /\ gain = One
    /\ windows_100ms = <<>>
    /\ power = NotMeasured

(***************************************************************************)
(* SpecMeter: one meter, fed in chunks.                                    *)
(***************************************************************************)
InitMeter ==
    /\ sample_rate_hz \in Rates
    /\ meters = [ch \in {"mono"} |-> new(sample_rate_hz)]
    /\ fed = [ch \in {"mono"} |-> <<>>]
    /\ chunks = [ch \in {"mono"} |-> <<>>]
    /\ NoStereo
    /\ NoGate

\* Mutant: the meters share one state, so a push reaches all of them.
PushShared(ch, samples) ==
    /\ meters' = [c \in DOMAIN meters |-> push(meters[c], samples)]
    /\ fed' = [fed EXCEPT ![ch] = @ \o samples]

\* meters[ch].push(samples)
Push(ch, samples) ==
    /\ meters' = [meters EXCEPT ![ch] = push(@, samples)]
    /\ fed' = [fed EXCEPT ![ch] = @ \o samples]

PushChunk ==
    \E samples \in SeqsUpTo(Samples, MaxChunk) :
        /\ Len(fed["mono"]) + Len(samples) <= MaxSamples
        /\ Len(chunks["mono"]) < MaxCalls
        /\ Push("mono", samples)
        /\ chunks' = [chunks EXCEPT !["mono"] = Append(@, Len(samples))]
        /\ UNCHANGED <<sample_rate_hz, stereoVars, gateVars>>

NextMeter == PushChunk

SpecMeter == InitMeter /\ [][NextMeter]_vars

(***************************************************************************)
(* SpecPair: the two meters of a stereo stream, constructed with the same  *)
(* rate and fed in any interleaving, then reduced.  Here chunks keeps the  *)
(* length of the last push call of each channel only.                      *)
(***************************************************************************)
MaxPairSamples == 2

PairSamples == {One, FNeg(FromRat(1, 2))}

InitPair ==
    /\ sample_rate_hz \in Rates
    /\ meters = [ch \in {"left", "right"} |-> new(sample_rate_hz)]
    /\ fed = [ch \in {"left", "right"} |-> <<>>]
    /\ chunks = [ch \in {"left", "right"} |-> <<>>]
    /\ NoStereo
    /\ NoGate

PushChannel ==
    \E ch \in {"left", "right"}, samples \in SeqsUpTo(PairSamples, MaxChunk) :
        /\ ~stereo.called
        /\ Len(fed[ch]) + Len(samples) <= MaxPairSamples
        /\ Push(ch, samples)
        /\ chunks' = [chunks EXCEPT ![ch] = <<Len(samples)>>]
        /\ UNCHANGED <<sample_rate_hz, stereoVars, gateVars>>

\* reduce_stereo(&meters[0].square_sum_windows, &meters[1].square_sum_windows)
ReduceMeters ==
    /\ ~stereo.called
    /\ left' = meters["left"].square_sum_windows
    /\ right' = meters["right"].square_sum_windows
    /\ stereo' = reduce_stereo(left', right')
    /\ UNCHANGED <<meterVars, gateVars>>

NextPair == PushChannel \/ ReduceMeters

SpecPair == InitPair /\ [][NextPair]_vars

(***************************************************************************)
(* Properties of push.                                                     *)
(***************************************************************************)
Window(ch) == meters[ch].square_sum_windows

\* The number of samples delivered by the first i push calls.
RECURSIVE Delivered(_, _)
Delivered(lengths, i) == IF i = 0 THEN 0 ELSE Delivered(lengths, i - 1) + lengths[i]

\* C1: however the stream was cut into push calls, the meter is in the state
\* (windows, count, sum, residue, both filters) that one push of the whole
\* stream into a fresh meter of the same rate gives.
C1_StreamingEquivalence ==
    \A ch \in DOMAIN meters :
        meters[ch] = push(new(sample_rate_hz), fed[ch])

\* C1 witness: three push calls, one of them empty and one before the last
\* ending in the middle of a window, with a window completed.
C1_ChunkedMidWindow ==
    LET spw == meters["mono"].samples_per_100ms
        c   == chunks["mono"]
    IN  /\ DOMAIN meters = {"mono"}
        /\ Len(c) = 3
        /\ \E i \in 1 .. 3 : c[i] = 0
        /\ spw > 1
        /\ \E i \in 1 .. 2 : Delivered(c, i) % spw # 0
        /\ Len(Window("mono")) >= 1
        /\ meters["mono"].count > 0

\* C2: with sample_rate_hz >= 10, after N samples in all there are
\* floor(N / spw) windows and N mod spw samples in the open window, and the
\* samples of the open window are in no emitted window: the windows are those
\* of the first len * spw samples alone.
C2_WindowAccounting ==
    \A ch \in DOMAIN meters :
        sample_rate_hz >= 10 =>
            LET spw == meters[ch].samples_per_100ms
                N   == Len(fed[ch])
                len == Len(Window(ch))
            IN  /\ spw = sample_rate_hz \div 10
                /\ spw > 0
                /\ N = len * spw + meters[ch].count
                /\ 0 <= meters[ch].count /\ meters[ch].count < spw
                /\ len = N \div spw
                /\ Window(ch) = push(new(sample_rate_hz),
                                     SubSeq(fed[ch], 1, len * spw)).square_sum_windows

\* C2 witness: several calls, a window emitted, samples left in the open window.
C2_OpenWindowAfterWindows ==
    /\ DOMAIN meters = {"mono"}
    /\ sample_rate_hz >= 10
    /\ Len(chunks["mono"]) >= 2
    /\ Len(Window("mono")) >= 1
    /\ meters["mono"].count > 0
    /\ meters["mono"].count = Len(fed["mono"]) % meters["mono"].samples_per_100ms

\* C9: a meter with samples_per_100ms = 0 (sample_rate_hz < 10) is rejected
\* at construction, so none is ever pushed to.
C9_LowRateNeverPushed ==
    \A ch \in DOMAIN meters :
        meters[ch].samples_per_100ms = 0 => fed[ch] = <<>>

\* The filters and the compensated sum after the first i samples of a stream,
\* by position alone: the sum restarts after every position that is a
\* multiple of spw.
RECURSIVE AtPosition(_, _, _)
AtPosition(rate, samples, i) ==
    IF i = 0
    THEN [f1 |-> high_shelf(rate), f2 |-> high_pass(rate), acc |-> SumZero]
    ELSE LET p    == AtPosition(rate, samples, i - 1)
             spw  == rate \div 10
             open == IF spw > 0 /\ (i - 1) % spw = 0
                     THEN [p.acc EXCEPT !.sum = Zero]
                     ELSE p.acc
             y    == apply(p.f1, samples[i])
             z    == apply(p.f2, y.y0)
         IN  [f1 |-> y.self, f2 |-> z.self, acc |-> SumAdd(open, FMul(z.y0, z.y0))]

\* The mean square over the positions (k - 1) * spw + 1 .. k * spw (1-based).
WindowAt(rate, samples, k) ==
    LET spw == rate \div 10
    IN  FMul(AtPosition(rate, samples, k * spw).acc.sum, FDiv(One, FromInt(spw)))

\* C10: two meters of the same rate that have received the same number of
\* samples, in whatever chunks, have equally many windows, so reduce_stereo
\* does not reject them, and window k of each covers the positions
\* (k - 1) * spw + 1 .. k * spw of its channel.
C10_ChannelsAligned ==
    /\ \A a, b \in DOMAIN meters :
          Len(fed[a]) = Len(fed[b]) =>
              /\ Len(Window(a)) = Len(Window(b))
              /\ ~reduce_stereo(Window(a), Window(b)).panicked
              /\ (stereo.called /\ a = "left" /\ b = "right") =>
                    /\ ~stereo.panicked
                    /\ Len(stereo.value) = Len(Window(a))
    /\ \A ch \in DOMAIN meters :
          \A k \in 1 .. Len(Window(ch)) :
              /\ k * meters[ch].samples_per_100ms <= Len(fed[ch])
              /\ Window(ch)[k] = WindowAt(sample_rate_hz, fed[ch], k)

\* C10 witness: the same number of samples reached by one push on the right
\* and by several on the left, the first ending in the middle of a window;
\* then reduced.
C10_AlignedAfterDifferentChunks ==
    /\ DOMAIN meters = {"left", "right"}
    /\ Len(fed["left"]) = Len(fed["right"])
    /\ fed["left"] # fed["right"]
    /\ chunks["right"] = <<Len(fed["right"])>>
    /\ chunks["left"] = <<1>>
    /\ Len(fed["left"]) > 1
    /\ meters["left"].samples_per_100ms > 1
    /\ stereo.called
    /\ ~stereo.panicked
    /\ Len(stereo.value) >= 1

(***************************************************************************)
(* SpecStereo: reduce_stereo on two sequences of powers.                   *)
(***************************************************************************)
MaxStereoLen == 2

\* Channel powers: silence, full scale, and a small power that full scale
\* absorbs only in part when the two are added.
StereoPowers == {Zero, One, F32(3, -12)}

NoMeters ==
    /\ sample_rate_hz = 0
    /\ meters = <<>>
    /\ fed = <<>>
    /\ chunks = <<>>

InitStereo ==
    /\ left \in SeqsUpTo(StereoPowers, MaxStereoLen)
    /\ right \in SeqsUpTo(StereoPowers, MaxStereoLen)
    /\ stereo = NotCalled
    /\ NoMeters
    /\ NoGate

\* reduce_stereo(&left, &right)
ReduceStereo ==
    /\ ~stereo.called
    /\ stereo' = reduce_stereo(left, right)
    /\ UNCHANGED <<left, right, meterVars, gateVars>>

NextStereo == ReduceStereo

SpecStereo == InitStereo /\ [][NextStereo]_vars

\* C7: for inputs of equal length, the call returns the sequence of that
\* length whose k-th element is left[k] + right[k], not halved, and leaves
\* left and right as they were.
C7_UnnormalizedSum ==
    [][(stereo'.called /\ ~stereo.called /\ Len(left) = Len(right)) =>
          /\ left' = left
          /\ right' = right
          /\ ~stereo'.panicked
          /\ Len(stereo'.value) = Len(left)
          /\ \A k \in 1 .. Len(left) :
                stereo'.value[k] = FAdd(left[k], right[k])]_vars

\* C7 witness: two full-scale windows reduced to a window of power 2, beside
\* a sum that had to be rounded.
C7_FullScaleBothChannels ==
    /\ stereo.called
    /\ ~stereo.panicked
    /\ Len(left) = 2
    /\ Len(stereo.value) = 2
    /\ left[1] = One /\ right[1] = One /\ stereo.value[1] = FromInt(2)
    /\ left[2] = One /\ right[2] = F32(3, -12)
    /\ FGt(stereo.value[2], One)

\* C8: the call panics, and returns nothing, exactly when the lengths differ.
C8_MismatchRejected ==
    stereo.called =>
        /\ stereo.panicked <=> Len(left) # Len(right)
        /\ stereo.panicked => stereo.value = <<>>
        /\ ~stereo.panicked => Len(stereo.value) = Len(left)

\* C8 witness: a call with two windows on the left and one on the right.
C8_PanicOnShorterRight ==
    /\ stereo.called
    /\ stereo.panicked
    /\ Len(left) = 2
    /\ Len(right) = 1

(***************************************************************************)
(* SpecGate: gated_mean on a sequence of window powers, as given or with   *)
(* windows of silence appended.                                            *)
(***************************************************************************)
MaxWindows == 5
MaxSilence == 4

\* Window powers: silence, a quiet power about three times the absolute
\* threshold, and a loud one some 700 times the quiet one.
Quiet == F32(1537, -32)
Loud == F32(1025, -22)
GatePowers == {Zero, Quiet, Loud}

InitGate ==
    /\ programme \in SeqsUpTo(GatePowers, MaxWindows)
    /\ gain = One
    /\ windows_100ms = programme
    /\ power = NotMeasured
    /\ NoMeters
    /\ NoStereo

\* A window of silence follows the programme.
AppendSilence ==
    /\ ~power.called
    /\ Len(windows_100ms) - Len(programme) < MaxSilence
    /\ windows_100ms' = Append(windows_100ms, Zero)
    /\ UNCHANGED <<programme, gain, power, meterVars, stereoVars>>

\* gated_mean(&windows_100ms)
Measure ==
    /\ ~power.called
    /\ power' = Measured(gated_mean(windows_100ms))
    /\ UNCHANGED <<programme, gain, windows_100ms, meterVars, stereoVars>>

NextGate == AppendSilence \/ Measure

SpecGate == InitGate /\ [][NextGate]_vars

\* The two gates as sets of block indices.
BlockIndices(W) == 1 .. (Len(W) - 3)
AboveAbsolute(W) ==
    {k \in BlockIndices(W) : FGt(gating_block_power(W, k), from_lkfs(FromInt(-70)))}

\* The compensated sum of the blocks of W with index in S, from block k on.
RECURSIVE BlockSum(_, _, _, _)
BlockSum(W, S, k, acc) ==
    IF k > Len(W) - 3 THEN acc
    ELSE BlockSum(W, S, k + 1,
                  IF k \in S THEN SumAdd(acc, gating_block_power(W, k)) ELSE acc)

MeanOver(W, S) == FDiv(BlockSum(W, S, 1, SumZero).sum, FromInt(Cardinality(S)))

AboveRelative(W) ==
    LET P1 == MeanOver(W, AboveAbsolute(W))
    IN  {k \in AboveAbsolute(W) :
            FGt(gating_block_power(W, k),
                from_lkfs(FSub(loudness_lkfs(P1), FromInt(10))))}

Silence(k) == [i \in 1 .. k |-> Zero]
Appended == Len(windows_100ms) - Len(programme)

\* C3: for an input with a block above the absolute gate, the result is the
\* sum of the blocks of S2 divided by |S2|, where S1 is the set of blocks above
\* from_lkfs(-70), P1 = sum(S1) / |S1| and S2 the set of blocks of S1 above
\* from_lkfs(loudness_lkfs(P1) - 10).
C3_TwoGateMean ==
    (power.called /\ Len(windows_100ms) >= 4 /\ AboveAbsolute(windows_100ms) # {}) =>
        power.value = MeanOver(windows_100ms, AboveRelative(windows_100ms))

\* C3 witness: a measurement in which each gate removed a block and more
\* than one block survived.
C3_BothGatesRemove ==
    /\ power.called
    /\ AboveAbsolute(windows_100ms) # BlockIndices(windows_100ms)
    /\ AboveRelative(windows_100ms) # AboveAbsolute(windows_100ms)
    /\ Cardinality(AboveRelative(windows_100ms)) >= 2
    /\ power.value.k = "num"

\* C4: with fewer than four windows, or with no block above the absolute
\* gate, the result is the sentinel Power(0).
C4_EmptyGatingSentinel ==
    (power.called /\ (Len(windows_100ms) < 4 \/ AboveAbsolute(windows_100ms) = {})) =>
        power.value = Zero

\* C5 as claimed: silence appended to a programme with a defined loudness
\* leaves the result as it was.
C5_SilenceInvariance ==
    (power.called /\ gated_mean(programme).k = "num") =>
        power.value = gated_mean(programme)

\* C5 as amended: silence appended beyond three windows changes nothing more.
C5_SilenceBeyondThreeWindows ==
    (power.called /\ Appended >= 3) =>
        power.value = gated_mean(programme \o Silence(3))

\* C5 witness: a programme with a defined loudness, measured with four
\* windows of silence appended, the first three of which changed the result.
C5_FourWindowsAppended ==
    /\ power.called
    /\ Appended = 4
    /\ gated_mean(programme).k = "num"
    /\ power.value.k = "num"
    /\ power.value # gated_mean(programme)

(***************************************************************************)
(* SpecScale: a stream and its copy scaled by a gain, each pushed into a   *)
(* meter of its own, and gated_mean on a sequence of window powers scaled  *)
(* by the square of the gain.                                              *)
(***************************************************************************)
MaxScaleSamples == 2

\* Gains in the sample domain; the window powers scale by their square.
Gains == {FromRat(1, 2), FromInt(2), FromInt(3)}

\* Window powers of the programmes to scale: the quiet and the loud one.
ScalePowers == {Quiet, Loud}

Scaled(c, W) == [k \in 1 .. Len(W) |-> FMul(c, W[k])]

InitScale ==
    /\ sample_rate_hz = 10
    /\ gain \in Gains
    /\ meters = [ch \in {"plain", "scaled"} |-> new(sample_rate_hz)]
    /\ fed = [ch \in {"plain", "scaled"} |-> <<>>]
    /\ chunks = [ch \in {"plain", "scaled"} |-> <<>>]
    /\ programme = <<>>
    /\ windows_100ms = <<>>
    /\ power = NotMeasured
    /\ NoStereo

\* plain.push(&[x]); scaled.push(&[gain * x])
PushScaled ==
    \E x \in PairSamples :
        /\ Len(fed["plain"]) < MaxScaleSamples
        /\ meters' = [meters EXCEPT !["plain"] = push(@, <<x>>),
                                    !["scaled"] = push(@, <<FMul(gain, x)>>)]
        /\ fed' = [fed EXCEPT !["plain"] = Append(@, x),
                              !["scaled"] = Append(@, FMul(gain, x))]
        /\ UNCHANGED <<sample_rate_hz, chunks, stereoVars, gateVars>>

\* gated_mean(&windows_100ms), the window powers being those of a programme
\* times gain * gain.
MeasureScaled ==
    \E W \in SeqsUpTo(ScalePowers, MaxWindows) :
        /\ ~power.called
        /\ programme' = W
        /\ windows_100ms' = Scaled(FMul(gain, gain), W)
        /\ power' = Measured(gated_mean(Scaled(FMul(gain, gain), W)))
        /\ UNCHANGED <<gain, meterVars, stereoVars>>

NextScale == PushScaled \/ MeasureScaled

SpecScale == InitScale /\ [][NextScale]_vars

\* The windows of the scaled meter are those of the plain one times gain^2.
WindowsScaled ==
    Window("scaled") = Scaled(FMul(gain, gain), Window("plain"))

\* Scaling by a power of two changes the exponent only, and is exact.
PowerOfTwo(g) == g.k = "num" /\ g.m = Two(Precision - 1)

\* Scaling the programme left each block on its side of both gates.
SameGating ==
    /\ AboveAbsolute(windows_100ms) = AboveAbsolute(programme)
    /\ AboveRelative(windows_100ms) = AboveRelative(programme)

\* C6 as claimed: the window powers scale by gain^2, and so does the result
\* of gated_mean for every programme with a defined result.
C6_ScalingLaw ==
    /\ WindowsScaled
    /\ (power.called /\ gated_mean(programme).k = "num") =>
            power.value = FMul(FMul(gain, gain), gated_mean(programme))

\* C6 as amended: for a gain that is a power of two, the window powers scale
\* by gain^2, and so does the result of gated_mean when the same blocks pass
\* the absolute and the relative gate before and after scaling.
C6_ScalingLawWithinGates ==
    PowerOfTwo(gain) =>
        /\ WindowsScaled
        /\ (power.called /\ gated_mean(programme).k = "num" /\ SameGating) =>
                power.value = FMul(FMul(gain, gain), gated_mean(programme))

\* C6 witness: two samples pushed at twice the gain, and a programme whose
\* blocks keep their side of both gates measured at four times its power,
\* the relative gate removing a block.
C6_FourfoldPower ==
    /\ gain = FromInt(2)
    /\ Len(Window("plain")) = 2
    /\ FGt(Window("scaled")[2], Zero)
    /\ power.called
    /\ power.value.k = "num"
    /\ SameGating
    /\ AboveRelative(programme) # AboveAbsolute(programme)

(***************************************************************************)
(* SpecClone: a meter that is pushed to and cloned mid-stream, after which *)
(* the original and the clone are pushed to in any interleaving.           *)
(***************************************************************************)
\* ChannelLoudnessMeter::clone, as derive(Clone) gives it: every field is
\* cloned, the vector of windows element by element.
clone(self) ==
    [samples_per_100ms  |-> self.samples_per_100ms,
     filter_stage1      |-> self.filter_stage1,
     filter_stage2      |-> self.filter_stage2,
     square_sum_windows |-> [k \in 1 .. Len(self.square_sum_windows) |->
                                self.square_sum_windows[k]],
     count              |-> self.count,
     square_sum         |-> self.square_sum]

InitClone ==
    /\ sample_rate_hz \in Rates
    /\ meters = [ch \in {"original"} |-> new(sample_rate_hz)]
    /\ fed = [ch \in {"original"} |-> <<>>]
    /\ chunks = [ch \in {"original"} |-> <<>>]
    /\ NoStereo
    /\ NoGate

\* let clone = original.clone()
CloneMeter ==
    /\ DOMAIN meters = {"original"}
    /\ meters' = [ch \in {"original", "clone"} |->
                    IF ch = "original" THEN meters["original"]
                    ELSE clone(meters["original"])]
    /\ fed' = [ch \in {"original", "clone"} |-> fed["original"]]
    /\ chunks' = [ch \in {"original", "clone"} |-> chunks["original"]]
    /\ UNCHANGED <<sample_rate_hz, stereoVars, gateVars>>

\* original.push(samples) or clone.push(samples)
PushEither ==
    \E ch \in DOMAIN meters, samples \in SeqsUpTo(PairSamples, MaxChunk) :
        /\ Len(fed[ch]) + Len(samples) <= MaxPairSamples
        /\ Push(ch, samples)
        /\ chunks' = [chunks EXCEPT ![ch] = <<Len(samples)>>]
        /\ UNCHANGED <<sample_rate_hz, stereoVars, gateVars>>

NextClone == CloneMeter \/ PushEither

SpecClone == InitClone /\ [][NextClone]_vars

\* C11: a push to one meter leaves every field of every other meter as it
\* was, a clone included; so each meter is in the state that one push of its
\* own stream gives, however the pushes to the others were interleaved.
C11_NoSharedState ==
    /\ [][\A a \in DOMAIN meters : \A b \in DOMAIN meters \ {a} :
             (fed'[a] # fed[a] \/ chunks'[a] # chunks[a]) =>
                 meters'[b] = meters[b]]_vars
    /\ [](\A ch \in DOMAIN meters :
             meters[ch] = push(new(sample_rate_hz), fed[ch]))

\* C11 witness: the original and its clone, each pushed to after the clone
\* was made, with different windows.
C11_CloneDiverged ==
    /\ DOMAIN meters = {"original", "clone"}
    /\ Len(fed["original"]) = MaxPairSamples
    /\ Len(fed["clone"]) = MaxPairSamples
    /\ fed["original"][1] = fed["clone"][1]
    /\ fed["original"] # fed["clone"]
    /\ Len(Window("clone")) >= 1
    /\ Window("original") # Window("clone")

(***************************************************************************)
(* Window completion (the branch of push at count = samples_per_100ms).    *)
(***************************************************************************)
\* A push of one sample to ch that completes a window.
Completes(ch) ==
    /\ Len(fed'[ch]) = Len(fed[ch]) + 1
    /\ meters[ch].count + 1 = meters[ch].samples_per_100ms

\* C14: a step that completes a window appends exactly one Power to
\* square_sum_windows and leaves square_sum.sum = 0.0 and count = 0, while
\* the residue of the sum and the state of both filters are those the sample
\* left: completion resets neither.
C14_WindowCompletion ==
    [][\A ch \in DOMAIN meters :
           Completes(ch) =>
               LET x == fed'[ch][Len(fed'[ch])]
                   y == apply(meters[ch].filter_stage1, x)
                   z == apply(meters[ch].filter_stage2, y.y0)
                   s == SumAdd(meters[ch].square_sum, FMul(z.y0, z.y0))
                   w == meters[ch].square_sum_windows
               IN  /\ Len(meters'[ch].square_sum_windows) = Len(w) + 1
                   /\ SubSeq(meters'[ch].square_sum_windows, 1, Len(w)) = w
                   /\ meters'[ch].square_sum.sum = Zero
                   /\ meters'[ch].count = 0
                   /\ meters'[ch].square_sum.residue = s.residue
                   /\ meters'[ch].filter_stage1 = y.self
                   /\ meters'[ch].filter_stage2 = z.self
                   /\ meters'[ch].samples_per_100ms = meters[ch].samples_per_100ms]_vars

\* C14 witness: a window of several samples was just completed by a push of
\* one sample, and the residue and the filter memories it left are not zero.
C14_ResidueSurvivesCompletion ==
    /\ DOMAIN meters = {"mono"}
    /\ meters["mono"].samples_per_100ms > 1
    /\ Len(Window("mono")) >= 1
    /\ meters["mono"].count = 0
    /\ chunks["mono"] # <<>>
    /\ chunks["mono"][Len(chunks["mono"])] = 1
    /\ meters["mono"].square_sum.sum = Zero
    /\ meters["mono"].square_sum.residue # Zero
    /\ meters["mono"].filter_stage1.y1 # Zero
    /\ meters["mono"].filter_stage2.y1 # Zero

Biquad(f, x0) ==
    FSub(FSub(FAdd(FAdd(FMul(f.b0, x0), FMul(f.b1, f.x1)), FMul(f.b2, f.x2)),
              FMul(f.a1, f.y1)),
         FMul(f.a2, f.y2))

\* g is f after one apply of x0.
Applied(f, x0, g) ==
    /\ g.y1 = Biquad(f, x0)
    /\ g.x2 = f.x1 /\ g.x1 = x0
    /\ g.y2 = f.y1
    /\ <<g.a1, g.a2, g.b0, g.b1, g.b2>> = <<f.a1, f.a2, f.b0, f.b1, f.b2>>

\* Element i of s counted from the end of the first n (1: the last), zero
\* before the first element.
Back(s, n, i) == IF n >= i THEN s[n - i + 1] ELSE Zero

\* The outputs of the first stage and of the second for the stream fed.
RECURSIVE Outputs(_, _, _)
Outputs(rate, samples, i) ==
    IF i = 0 THEN <<>>
    ELSE LET p == AtPosition(rate, samples, i)
         IN  Append(Outputs(rate, samples, i - 1), <<p.f1.y1, p.f2.y1>>)

\* C16: one apply returns y0 = b0*x0 + b1*x1 + b2*x2 - a1*y1 - a2*y2 of the
\* state before the call, then x2 = old x1, x1 = x0, y2 = old y1, y1 = y0,
\* and keeps the coefficients; so after any stream (x1, x2) are the last two
\* inputs of the filter and (y1, y2) its last two outputs, zero before the
\* first samples.  The second stage's inputs are the first stage's outputs.
C16_ApplyStep ==
    /\ [][\A ch \in DOMAIN meters :
              Len(fed'[ch]) = Len(fed[ch]) + 1 =>
                  /\ Applied(meters[ch].filter_stage1, fed'[ch][Len(fed'[ch])],
                             meters'[ch].filter_stage1)
                  /\ Applied(meters[ch].filter_stage2, meters'[ch].filter_stage1.y1,
                             meters'[ch].filter_stage2)]_vars
    /\ [](\A ch \in DOMAIN meters :
              LET n   == Len(fed[ch])
                  out == Outputs(sample_rate_hz, fed[ch], n)
                  f1  == meters[ch].filter_stage1
                  f2  == meters[ch].filter_stage2
                  y(i, st) == IF n >= i THEN out[n - i + 1][st] ELSE Zero
              IN  /\ f1.x1 = Back(fed[ch], n, 1) /\ f1.x2 = Back(fed[ch], n, 2)
                  /\ f1.y1 = y(1, 1) /\ f1.y2 = y(2, 1)
                  /\ f2.x1 = y(1, 1) /\ f2.x2 = y(2, 1)
                  /\ f2.y1 = y(1, 2) /\ f2.y2 = y(2, 2)
                  /\ \A i \in 1 .. n :
                        /\ out[i][1] = Biquad([high_shelf(sample_rate_hz) EXCEPT
                                                  !.x1 = Back(fed[ch], i - 1, 1),
                                                  !.x2 = Back(fed[ch], i - 1, 2),
                                                  !.y1 = IF i >= 2 THEN out[i - 1][1] ELSE Zero,
                                                  !.y2 = IF i >= 3 THEN out[i - 2][1] ELSE Zero],
                                              fed[ch][i])
                        /\ out[i][2] = Biquad([high_pass(sample_rate_hz) EXCEPT
                                                  !.x1 = IF i >= 2 THEN out[i - 1][1] ELSE Zero,
                                                  !.x2 = IF i >= 3 THEN out[i - 2][1] ELSE Zero,
                                                  !.y1 = IF i >= 2 THEN out[i - 1][2] ELSE Zero,
                                                  !.y2 = IF i >= 3 THEN out[i - 2][2] ELSE Zero],
                                              out[i][1]))

\* C16 witness: three different samples applied one by one, every memory of
\* both filters holding a value of its own.
C16_ThreeSamplesApplied ==
    /\ DOMAIN meters = {"mono"}
    /\ chunks["mono"] = <<1, 1, 1>>
    /\ fed["mono"][1] # fed["mono"][2]
    /\ fed["mono"][2] # fed["mono"][3]
    /\ fed["mono"][3] # Zero
    /\ meters["mono"].filter_stage1.x1 # meters["mono"].filter_stage1.x2
    /\ meters["mono"].filter_stage1.y1 # meters["mono"].filter_stage1.y2
    /\ meters["mono"].filter_stage2.y1 # meters["mono"].filter_stage2.y2
    /\ meters["mono"].filter_stage2.y2 # Zero

(***************************************************************************)
(* The filters over the whole stream.                                      *)
(***************************************************************************)
\* Both filters after the first i samples of a stream went through the first
\* stage and then the second, once each and in order, from the memories of
\* construction.
RECURSIVE Cascade(_, _, _)
Cascade(rate, samples, i) ==
    IF i = 0
    THEN [filter_stage1 |-> high_shelf(rate), filter_stage2 |-> high_pass(rate)]
    ELSE LET p == Cascade(rate, samples, i - 1)
             y == apply(p.filter_stage1, samples[i])
             z == apply(p.filter_stage2, y.y0)
         IN  [filter_stage1 |-> y.self, filter_stage2 |-> z.self]

\* C17: the filter state is never reset mid-stream.  Whatever the push calls
\* and wherever the windows completed, both filters are in the state that
\* the uninterrupted cascade over the whole stream leaves; and a step that
\* delivers no sample to a meter leaves its filters as they were.
C17_FiltersNeverReset ==
    /\ [](\A ch \in DOMAIN meters :
              LET c == Cascade(sample_rate_hz, fed[ch], Len(fed[ch]))
              IN  /\ meters[ch].filter_stage1 = c.filter_stage1
                  /\ meters[ch].filter_stage2 = c.filter_stage2)
    /\ [][\A ch \in DOMAIN meters :
              fed'[ch] = fed[ch] =>
                  /\ meters'[ch].filter_stage1 = meters[ch].filter_stage1
                  /\ meters'[ch].filter_stage2 = meters[ch].filter_stage2]_vars

\* C17 witness: a window completed and a push call ended before the last
\* sample, and the filters still hold what the earlier samples left.
C17_MemoryAcrossPushAndWindow ==
    /\ DOMAIN meters = {"mono"}
    /\ Len(chunks["mono"]) >= 2
    /\ chunks["mono"][Len(chunks["mono"])] = 1
    /\ \E i \in 1 .. Len(chunks["mono"]) - 1 : chunks["mono"][i] > 0
    /\ Len(Window("mono")) >= 1
    /\ meters["mono"].count = 1
    /\ meters["mono"].filter_stage1.x2 # Zero
    /\ meters["mono"].filter_stage1.y2 # Zero
    /\ meters["mono"].filter_stage2.x2 # Zero
    /\ meters["mono"].filter_stage2.y2 # Zero

(***************************************************************************)
(* The 400 ms gating blocks.                                               *)
(***************************************************************************)
\* 0.25 * (W[k] + W[k+1] + W[k+2] + W[k+3])
FourWindowMean(W, k) ==
    FMul(FromRat(1, 4), FAdd(FAdd(FAdd(W[k], W[k + 1]), W[k + 2]), W[k + 3]))

\* The blocks of W: one per index k with k + 3 within W.
Blocks(W) == [k \in 1 .. Max(0, Len(W) - 3) |-> FourWindowMean(W, k)]

\* The blocks that contain window i.
BlocksOver(W, i) == {k \in DOMAIN Blocks(W) : k <= i /\ i <= k + 3}

\* C18: for n windows gated_mean forms max(0, n - 3) blocks, the k-th being
\* 0.25 * (W[k] + W[k+1] + W[k+2] + W[k+3]): the blocks it keeps are those
\* of that sequence above the absolute threshold, in order, and its result
\* is computed from them.  Consecutive blocks start one window apart, every
\* window is in at most four blocks, and no block reaches past the end.
C18_BlockFormation ==
    LET W       == windows_100ms
        pass(p) == FGt(p, absolute_threshold)
        kept    == SelectSeq(Blocks(W), pass)
    IN  /\ Len(Blocks(W)) = (IF Len(W) >= 4 THEN Len(W) - 3 ELSE 0)
        /\ AbsoluteGate(W, 1, <<>>) = kept
        /\ \A i \in 1 .. Len(W) :
              /\ Cardinality(BlocksOver(W, i)) <= 4
              /\ \A k \in BlocksOver(W, i) : k + 3 <= Len(W)
        /\ power.called =>
              power.value =
                  relative_gated_power(
                      RelativeGate(kept, relative_threshold(absolute_gated_power(kept)), 1,
                                   [sum_power |-> SumZero, n_blocks |-> 0]))

\* C18 witness: six windows measured, the three blocks all kept and of
\* different powers, the middle windows in three or four blocks each.
C18_ThreeOverlappingBlocks ==
    /\ power.called
    /\ Len(windows_100ms) = 6
    /\ Len(AbsoluteGate(windows_100ms, 1, <<>>)) = 3
    /\ Blocks(windows_100ms)[1] # Blocks(windows_100ms)[2]
    /\ Blocks(windows_100ms)[2] # Blocks(windows_100ms)[3]
    /\ Cardinality(BlocksOver(windows_100ms, 3)) = 3
    /\ power.value.k = "num"

(***************************************************************************)
(* SpecEdge: gated_mean on window powers at the absolute threshold.        *)
(***************************************************************************)
MaxEdgeWindows == 5

\* Window powers: silence, the absolute threshold itself, and the quiet
\* power (about three times the threshold).
EdgePowers == {Zero, absolute_threshold, Quiet}

InitEdge ==
    /\ programme \in SeqsUpTo(EdgePowers, MaxEdgeWindows)
    /\ gain = One
    /\ windows_100ms = programme
    /\ power = NotMeasured
    /\ NoMeters
    /\ NoStereo

NextEdge == Measure

SpecEdge == InitEdge /\ [][NextEdge]_vars

\* The blocks of W at or below the absolute threshold.
AtOrBelowAbsolute(W) == BlockIndices(W) \ AboveAbsolute(W)

\* C19: the absolute gate is strict, comes first, and compares powers.  The
\* blocks gated_mean keeps are all strictly above from_lkfs(-70) and as many
\* as the blocks strictly above it; P1 is the sum over those divided by their
\* number; the result counts and sums only blocks among them.  A block at or
\* below the threshold is in neither, also when it is above the relative
\* threshold.
C19_AbsoluteGateStrict ==
    LET W      == windows_100ms
        kept   == AbsoluteGate(W, 1, <<>>)
        P1     == absolute_gated_power(kept)
        acc    == RelativeGate(kept, relative_threshold(P1), 1,
                               [sum_power |-> SumZero, n_blocks |-> 0])
    IN  /\ \A i \in 1 .. Len(kept) : FGt(kept[i], from_lkfs(FromInt(-70)))
        /\ Len(kept) = Cardinality(AboveAbsolute(W))
        /\ \A k \in AtOrBelowAbsolute(W) :
              ~FGt(gating_block_power(W, k), from_lkfs(FromInt(-70)))
        /\ AboveAbsolute(W) # {} =>
              /\ P1 = MeanOver(W, AboveAbsolute(W))
              /\ acc.n_blocks = Cardinality(AboveRelative(W))
              /\ acc.n_blocks <= Len(kept)
              /\ acc.sum_power = BlockSum(W, AboveRelative(W), 1, SumZero)
              /\ power.called => power.value = MeanOver(W, AboveRelative(W))

\* C19 witness: a measurement with a block whose power is the absolute
\* threshold exactly, above the relative threshold, beside a block that
\* passes both gates.
C19_BlockAtThreshold ==
    /\ power.called
    /\ power.value.k = "num"
    /\ AboveAbsolute(windows_100ms) # {}
    /\ \E k \in AtOrBelowAbsolute(windows_100ms) :
          /\ gating_block_power(windows_100ms, k) = from_lkfs(FromInt(-70))
          /\ FGt(gating_block_power(windows_100ms, k),
                 relative_threshold(MeanOver(windows_100ms, AboveAbsolute(windows_100ms))))

(***************************************************************************)
(* SpecBurst: one meter at 30 Hz, fed a sample at a time for two windows.  *)
(***************************************************************************)
MaxBurstSamples == 6

\* Input samples: full scale, half scale, and three values between them
\* at which the filtered signal of the second window comes out near zero.
BurstSamples == {One, FromRat(1, 2), F32(1200, -11), F32(1382, -11), F32(1566, -11)}

InitBurst ==
    /\ sample_rate_hz = 30
    /\ meters = [ch \in {"mono"} |-> new(sample_rate_hz)]
    /\ fed = [ch \in {"mono"} |-> <<>>]
    /\ chunks = [ch \in {"mono"} |-> <<>>]
    /\ NoStereo
    /\ NoGate

PushOne ==
    \E x \in BurstSamples :
        /\ Len(fed["mono"]) < MaxBurstSamples
        /\ Push("mono", <<x>>)
        /\ chunks' = [chunks EXCEPT !["mono"] = Append(@, 1)]
        /\ UNCHANGED <<sample_rate_hz, stereoVars, gateVars>>

NextBurst == PushOne

SpecBurst == InitBurst /\ [][NextBurst]_vars

\* p >= 0.0
NonNegative(p) == (p.k = "num" /\ p.m >= 0) \/ (p.k = "inf" /\ p.m > 0)

\* C20: Power values are non-negative: every window appended by push, every
\* element reduce_stereo returns for non-negative inputs, and every block
\* power and every defined result of gated_mean for non-negative inputs.
C20_PowerNonNegative ==
    /\ \A ch \in DOMAIN meters :
          \A k \in 1 .. Len(Window(ch)) : NonNegative(Window(ch)[k])
    /\ (/\ stereo.called /\ ~stereo.panicked
        /\ \A k \in 1 .. Len(left) : NonNegative(left[k])
        /\ \A k \in 1 .. Len(right) : NonNegative(right[k])) =>
          \A k \in 1 .. Len(stereo.value) : NonNegative(stereo.value[k])
    /\ (\A k \in 1 .. Len(windows_100ms) : NonNegative(windows_100ms[k])) =>
          /\ \A k \in BlockIndices(windows_100ms) :
                NonNegative(gating_block_power(windows_100ms, k))
          /\ (power.called /\ power.value.k # "nan") => NonNegative(power.value)

(***************************************************************************)
(* The relative gate and the mean it leaves.                               *)
(***************************************************************************)
\* The blocks gated_mean keeps after its first loop, and the count and sum
\* of its last loop.
KeptBlocks(W) == AbsoluteGate(W, 1, <<>>)
RelativeThresholdOf(W) == relative_threshold(absolute_gated_power(KeptBlocks(W)))
Gated(W) ==
    RelativeGate(KeptBlocks(W), RelativeThresholdOf(W), 1,
                 [sum_power |-> SumZero, n_blocks |-> 0])

\* C21: the relative gate never empties a non-empty set.  Whenever a block
\* passes the absolute gate, the largest kept block is above the relative
\* threshold, so n_blocks >= 1 and the result is a number; n_blocks is zero,
\* and the final division 0.0 / 0, only when no block passed the absolute
\* gate.
C21_RelativeGateKeepsABlock ==
    LET W    == windows_100ms
        kept == KeptBlocks(W)
    IN  /\ kept # <<>> =>
              /\ \E i \in 1 .. Len(kept) :
                    /\ \A j \in 1 .. Len(kept) : ~FGt(kept[j], kept[i])
                    /\ FGt(kept[i], RelativeThresholdOf(W))
              /\ Gated(W).n_blocks >= 1
              /\ power.called => power.value.k = "num"
        /\ Gated(W).n_blocks = 0 <=> kept = <<>>
        /\ (power.called /\ power.value.k = "nan") => kept = <<>>

\* C21 witness: a measurement where several blocks passed the absolute gate
\* and the relative gate removed all of them but one.
C21_OneBlockLeft ==
    /\ power.called
    /\ Len(KeptBlocks(windows_100ms)) >= 3
    /\ Gated(windows_100ms).n_blocks = 1
    /\ power.value.k = "num"

(***************************************************************************)
(* SpecStationary: gated_mean on windows that are all of one power.        *)
(***************************************************************************)
MaxStationaryWindows == 9

\* Powers above the absolute threshold: next to it, quiet, loud, around
\* full scale, and four whose threefold sum is a rounding tie.
StationaryPowers ==
    {F32(2019, -34), F32(2022, -34), Quiet, Loud, F32(1365, -20), F32(1366, -20),
     F32(1370, -20), F32(1374, -17), F32(1024, -10), F32(2047, -12)}

Stationary(p, n) == [i \in 1 .. n |-> p]

InitStationary ==
    /\ programme \in {Stationary(p, 4) : p \in StationaryPowers}
    /\ gain = One
    /\ windows_100ms = programme
    /\ power = NotMeasured
    /\ NoMeters
    /\ NoStereo

\* One more window of the same power.
AppendSame ==
    /\ ~power.called
    /\ Len(windows_100ms) < MaxStationaryWindows
    /\ windows_100ms' = Append(windows_100ms, programme[1])
    /\ UNCHANGED <<programme, gain, power, meterVars, stereoVars>>

NextStationary == AppendSame \/ Measure

SpecStationary == InitStationary /\ [][NextStationary]_vars

\* a <= b, a >= b for numbers.
FLe(a, b) == a.k # "nan" /\ b.k # "nan" /\ ~FGt(a, b)

\* r is p, or the number next to p on either side.
WithinOneUlp(r, p) ==
    /\ r.k = "num" /\ p.k = "num"
    /\ Abs(r.e - p.e) <= 1
    /\ LET lo == IF r.e < p.e THEN r.e ELSE p.e
       IN  Abs(r.m * Two(r.e - lo) - p.m * Two(p.e - lo)) <= Two(p.e - lo)

\* The largest of the blocks gated_mean keeps.
LargestBlock(W) ==
    LET kept == KeptBlocks(W)
    IN  kept[CHOOSE i \in 1 .. Len(kept) : \A j \in 1 .. Len(kept) : ~FGt(kept[j], kept[i])]

P1Of(W) == absolute_gated_power(KeptBlocks(W))

\* C22 as claimed: for every input with a block above the absolute gate the
\* result P2 satisfies P2 >= P1, P2 is at most the largest block power, and
\* P2 is strictly greater than from_lkfs(-70) and than the relative
\* threshold.
C22_GateNeverLowersMean ==
    (power.called /\ KeptBlocks(windows_100ms) # <<>>) =>
        /\ FLe(P1Of(windows_100ms), power.value)
        /\ FLe(power.value, LargestBlock(windows_100ms))
        /\ FGt(power.value, from_lkfs(FromInt(-70)))
        /\ FGt(power.value, RelativeThresholdOf(windows_100ms))

\* C22 as amended: P2 >= P1, P2 above both thresholds, and P2 at most the
\* largest block power or the number next above it (the compensated sum of
\* equal blocks and its division each round once).
C22_GateNeverLowersMeanRounded ==
    (power.called /\ KeptBlocks(windows_100ms) # <<>>) =>
        /\ FLe(P1Of(windows_100ms), power.value)
        /\ \/ FLe(power.value, LargestBlock(windows_100ms))
           \/ WithinOneUlp(power.value, LargestBlock(windows_100ms))
        /\ FGt(power.value, from_lkfs(FromInt(-70)))
        /\ FGt(power.value, RelativeThresholdOf(windows_100ms))

\* C22 witness: a measurement in which the relative gate removed a block
\* and raised the mean, which stays below the largest block.
C22_MeanRaised ==
    /\ power.called
    /\ Len(KeptBlocks(windows_100ms)) >= 2
    /\ Gated(windows_100ms).n_blocks < Len(KeptBlocks(windows_100ms))
    /\ FGt(power.value, P1Of(windows_100ms))
    /\ FGt(LargestBlock(windows_100ms), power.value)

\* The windows are n >= 4 copies of one power above the absolute threshold.
StationaryAbove(W) ==
    /\ Len(W) >= 4
    /\ \A i \in 1 .. Len(W) : W[i] = W[1]
    /\ FGt(W[1], from_lkfs(FromInt(-70)))

\* C23 as claimed: gated_mean of n >= 4 windows all equal to a power p
\* above from_lkfs(-70) returns p.
C23_StationaryFixedPoint ==
    (power.called /\ StationaryAbove(windows_100ms)) =>
        power.value = windows_100ms[1]

\* C23 as amended: all n - 3 blocks equal p and pass both gates, and the
\* result is their f32 mean: p itself for 1, 2 or 4 blocks, and p or a
\* number next to p otherwise.
C23_StationaryWithinRounding ==
    LET W == windows_100ms
        p == W[1]
        n == Len(W)
    IN  StationaryAbove(W) =>
            /\ \A k \in BlockIndices(W) : gating_block_power(W, k) = p
            /\ KeptBlocks(W) = Stationary(p, n - 3)
            /\ Gated(W).n_blocks = n - 3
            /\ power.called =>
                  /\ power.value = FDiv(SumAll(Stationary(p, n - 3), 1, SumZero).sum,
                                        FromInt(n - 3))
                  /\ WithinOneUlp(power.value, p)
                  /\ n - 3 \in {1, 2, 4} => power.value = p

\* C23 witness: nine equal windows measured, the six blocks all kept, and
\* the result is the power of the windows.
C23_NineEqualWindows ==
    /\ power.called
    /\ StationaryAbove(windows_100ms)
    /\ Len(windows_100ms) = 9
    /\ Gated(windows_100ms).n_blocks = 6
    /\ power.value = windows_100ms[1]

=============================================================================
